---- MODULE Spec2Model ----
(***************************************************************************)
(* Model of datapeek's table-data route (server/routes/query.ts,           *)
(* tableRoutes.get('/:schema/:table/data')) together with the part of      *)
(* SQL Server it talks to: the catalog (INFORMATION_SCHEMA), the base      *)
(* table, the referenced tables, and the failures executeQuery can raise.  *)
(*                                                                         *)
(* Column values are integers (Null == 0 stands for SQL NULL); a name that *)
(* may contain dots (schema, table) is the sequence of its dot-free        *)
(* segments; text (a filter pattern) is a sequence of one-character        *)
(* strings.                                                                *)
(***************************************************************************)
EXTENDS Integers, Sequences, FiniteSets, TLC

VARIABLES
    db,     \* the database the pool is connected to: catalog and contents
    fault,  \* which executeQuery call of a request fails, and with what error
    pool,   \* mssql.ts module-level pool: "connected" or "null"
    req,    \* the query parameters of the request being (re-)issued
    resp,   \* the response sent for the last request
    log,    \* the queries the last request handed to executeQuery, in order
    pools,  \* mssql.ts: the ConnectionPool objects created so far, by state
    current,    \* mssql.ts: the object the module-level pool refers to, 0 for null
    tasks,  \* the connect() and disconnect() calls made, each with its position
    installed,  \* the pool of the last connect() that returned, 0 once a
                \* disconnect() has started after it
    grid,   \* the client's grid: page, page size, display mode, visible columns
    text    \* the query text the client generated from the grid, <<>> before

serverVars == <<db, fault, pool, req, resp, log>>

poolVars == <<pools, current, tasks, installed>>

gridVars == <<grid, text>>

vars == <<serverVars, poolVars, gridVars>>

----------------------------------------------------------------------------
\* Bounds of the model

MaxRows == 3
MaxPage == 2
MaxPageSize == 2
MaxCalls == 3

----------------------------------------------------------------------------
\* Program constants

DefaultPage == 1
DefaultPageSize == 100
PageSizeCap == 1000

Null == 0

----------------------------------------------------------------------------
\* Strings

\* String.prototype.toLowerCase on the names of the model
Lower(s) ==
    CASE s = "ID" -> "id"
      [] s = "managerId" -> "managerid"
      [] s = "MANAGERID" -> "managerid"
      [] s = "deptId" -> "deptid"
      [] s = "Title" -> "title"
      [] s = "Name" -> "name"
      [] s = "DESC" -> "desc"
      [] s = "ASC" -> "asc"
      [] OTHER -> s

\* String.prototype.toUpperCase on the sort directions of the model
Upper(s) ==
    CASE s = "desc" -> "DESC"
      [] s = "asc" -> "ASC"
      [] s = "Desc" -> "DESC"
      [] OTHER -> s

\* How the database compares a name with a parameter: by its collation,
\* case-insensitive (ci) or binary.
CollationEq(ci, a, b) == IF ci THEN Lower(a) = Lower(b) ELSE a = b

RECURSIVE TrimLeft(_)
TrimLeft(t) ==
    IF t # <<>> /\ Head(t) = " " THEN TrimLeft(Tail(t)) ELSE t

RECURSIVE TrimRight(_)
TrimRight(t) ==
    IF t # <<>> /\ t[Len(t)] = " " THEN TrimRight(SubSeq(t, 1, Len(t) - 1)) ELSE t

\* String.prototype.trim
Trim(t) == TrimRight(TrimLeft(t))

DigitChars == <<"0", "1", "2", "3", "4", "5", "6", "7", "8", "9">>

\* The decimal text of a non-negative integer, as LIKE sees a numeric column
RECURSIVE Text(_)
Text(v) ==
    IF v < 10 THEN <<DigitChars[v + 1]>>
    ELSE Text(v \div 10) \o <<DigitChars[(v % 10) + 1]>>

Contains(t, p) ==
    \E i \in 0..(Len(t) - Len(p)) : SubSeq(t, i + 1, i + Len(p)) = p

\* value LIKE param, for a param of the form %...% without inner wildcards;
\* NULL LIKE anything is not true.
Like(v, param) ==
    /\ v # Null
    /\ Len(param) >= 2
    /\ Contains(Text(v), SubSeq(param, 2, Len(param) - 1))

\* `%${filterValue.trim()}%`
WildcardParam(value) == <<"%">> \o Trim(value) \o <<"%">>

----------------------------------------------------------------------------
\* Sequences

SeqRange(s) == { s[i] : i \in 1..Len(s) }

RECURSIVE SeqFilter(_, _)
\* Array.prototype.filter with the set `keep` as predicate
SeqFilter(s, keep) ==
    IF s = <<>> THEN <<>>
    ELSE IF Head(s) \in keep THEN <<Head(s)>> \o SeqFilter(Tail(s), keep)
         ELSE SeqFilter(Tail(s), keep)

RECURSIVE Flatten(_)
Flatten(ss) == IF ss = <<>> THEN <<>> ELSE Head(ss) \o Flatten(Tail(ss))

\* Every order of the index set S in which key never decreases: the orders
\* an ORDER BY on key may produce (rows with equal keys come in any order).
RECURSIVE Orders(_, _)
Orders(S, key) ==
    IF S = {} THEN { <<>> }
    ELSE UNION { { <<i>> \o t : t \in Orders(S \ {i}, key) } :
                 i \in { j \in S : \A k \in S : key[j] <= key[k] } }

\* Math.ceil(a / b) for b # 0
CeilDiv(a, b) == IF b > 0 THEN -((-a) \div b) ELSE -(a \div (-b))

Min(a, b) == IF a <= b THEN a ELSE b

----------------------------------------------------------------------------
\* The database: catalog and contents

\* A row is a function from column names to values.
BaseSchema == <<"dbo">>
BaseTable == <<"T">>

\* T(id, managerId): ids are unique, managerId repeats and may be NULL
PlainRow(i) ==
    [id |-> i,
     managerId |-> IF i % 4 = 0 THEN Null ELSE IF i % 4 = 3 THEN 2 ELSE 1]

\* T(id, managerId, deptId) with the composite key (deptId, managerId)
StaffedRow(i) ==
    [id |-> i,
     managerId |-> IF i % 3 = 0 THEN 3 ELSE i % 3,
     deptId |-> IF i % 3 = 1 THEN 1 ELSE 2]

PlainRows(n) == [i \in 1..n |-> PlainRow(i)]

StaffedRows(n) == [i \in 1..n |-> StaffedRow(i)]

Column(name, type) == [name |-> name, type |-> type]

ColumnNames(cols) == [i \in 1..Len(cols) |-> cols[i].name]

\* The row of a referenced table whose key columns hold keys[c]; every other
\* column c holds a value that tells the row and the column.
RefRow(cols, keys, k) ==
    [c \in SeqRange(ColumnNames(cols)) |->
        IF c \in DOMAIN keys THEN keys[c]
        ELSE 10 * (CHOOSE i \in 1..Len(cols) : cols[i].name = c) + k]

\* Employee(id PRIMARY KEY, ...): the column layouts of the referenced table
EmployeeLayouts ==
    { <<Column("id", "int"), Column("name", "nvarchar")>>,
      <<Column("id", "int"), Column("other", "varchar"), Column("code", "nvarchar")>>,
      <<Column("id", "int"), Column("code", "char"), Column("Title", "int")>>,
      <<Column("id", "int"), Column("other", "varchar")>>,
      <<Column("id", "int"), Column("amount", "decimal")>> }

RefTable(schema, table, cols, rows) ==
    [schema |-> schema, table |-> table, cols |-> cols, rows |-> rows]

Employee(table, cols) ==
    RefTable(<<"dbo">>, table, cols,
             [k \in 1..3 |-> RefRow(cols, [id |-> k], k)])

StaffCols == <<Column("dept", "int"), Column("no", "int"), Column("name", "nvarchar")>>

\* Staff(dept, no, name) with PRIMARY KEY (dept, no): neither dept nor no
\* is unique on its own.
Staff ==
    RefTable(<<"dbo">>, <<"Staff">>, StaffCols,
             << RefRow(StaffCols, [dept |-> 1, no |-> 1], 1),
                RefRow(StaffCols, [dept |-> 2, no |-> 2], 2),
                RefRow(StaffCols, [dept |-> 2, no |-> 3], 3) >>)

ForeignKey(fkColumn, refSchema, refTable, refColumn) ==
    [fkColumn |-> fkColumn, refSchema |-> refSchema,
     refTable |-> refTable, refColumn |-> refColumn]

Database(ci, cols, rows, fks, refs) ==
    [ci |-> ci, cols |-> cols, rows |-> rows, fks |-> fks, refs |-> refs]

PlainCols == <<"id", "managerId">>
StaffedCols == <<"id", "managerId", "deptId">>

ManagerFk(table) == ForeignKey("managerId", <<"dbo">>, table, "id")

\* The databases of the model, for a table of n rows
DatabasesOfSize(n) ==
    \* no foreign key, under a binary and under a case-insensitive collation
    { Database(ci, PlainCols, PlainRows(n), <<>>, <<>>) : ci \in BOOLEAN }
    \cup
    \* managerId REFERENCES Employee(id)
    { Database(FALSE, PlainCols, PlainRows(n),
               <<ManagerFk(<<"Employee">>)>>,
               <<Employee(<<"Employee">>, cols)>>) : cols \in EmployeeLayouts }
    \cup
    \* managerId REFERENCES [Order.Items](id): a table name with a dot in it
    { Database(FALSE, PlainCols, PlainRows(n),
               <<ManagerFk(<<"Order", "Items">>)>>,
               <<Employee(<<"Order", "Items">>,
                          <<Column("id", "int"), Column("name", "nvarchar")>>)>>) }
    \cup
    \* (deptId, managerId) REFERENCES Staff(dept, no)
    { Database(FALSE, StaffedCols, StaffedRows(n),
               <<ForeignKey("deptId", <<"dbo">>, <<"Staff">>, "dept"),
                 ForeignKey("managerId", <<"dbo">>, <<"Staff">>, "no")>>,
               <<Staff>>) }
    \cup
    \* deptId REFERENCES Dept(id), managerId REFERENCES Employee(id): two
    \* referenced tables, of which Dept has no column to display
    { Database(FALSE, StaffedCols, StaffedRows(n),
               <<ForeignKey("deptId", <<"dbo">>, <<"Dept">>, "id"),
                 ManagerFk(<<"Employee">>)>>,
               <<Employee(<<"Dept">>,
                          <<Column("id", "int"), Column("amount", "decimal")>>),
                 Employee(<<"Employee">>,
                          <<Column("id", "int"), Column("name", "nvarchar")>>)>>) }

Databases == UNION { DatabasesOfSize(n) : n \in 0..MaxRows }

----------------------------------------------------------------------------
\* Errors and executeQuery

\* What the handlers read of an Error: whether its code or message marks a
\* timeout, and whether its message holds 'Login failed' or 'authentication'.
Error(timeout, auth) == [timeout |-> timeout, auth |-> auth]

SqlError == Error(FALSE, FALSE)
TimeoutError == Error(TRUE, FALSE)
LoginError == Error(FALSE, TRUE)
NoError == Error(FALSE, FALSE)

\* executeQuery's catch: a timeout is rethrown as a new Error with code
\* ETIMEOUT and a fixed message, anything else as it is.
Rethrown(e) == IF e.timeout THEN Error(TRUE, FALSE) ELSE e

NoFault == [at |-> "none", err |-> NoError]
FaultAt(kind, e) == [at |-> kind, err |-> e]

\* The executeQuery calls of the table-data route, in the order it makes them
QueryKinds ==
    <<"validateFilters", "count", "validateSort", "structure",
      "foreignKeys", "refColumns", "data">>

----------------------------------------------------------------------------
\* The request: req.query as Express hands it over

Absent == [kind |-> "absent", val |-> 0]
Word == [kind |-> "word", val |-> 0]
Number(n) == [kind |-> "number", val |-> n]

\* parseInt: NaN for undefined and for text that starts with no digit
ParseInt(raw) ==
    IF raw.kind = "number" THEN [nan |-> FALSE, val |-> raw.val]
    ELSE [nan |-> TRUE, val |-> 0]

\* parsed || fallback: NaN and 0 are falsy
OrElse(parsed, fallback) ==
    IF parsed.nan \/ parsed.val = 0 THEN fallback ELSE parsed.val

PageOf(q) == OrElse(ParseInt(q.page), DefaultPage)

PageSizeOf(q) == Min(OrElse(ParseInt(q.pageSize), DefaultPageSize), PageSizeCap)

OffsetOf(page, pageSize) == (page - 1) * pageSize

\* sortDirection || 'asc'
SortDirectionOf(q) == IF q.sortDirection = "" THEN "asc" ELSE q.sortDirection

\* fkDisplayMode || 'key-only'
FkDisplayModeOf(q) == IF q.fkDisplayMode = "" THEN "key-only" ELSE q.fkDisplayMode

\* filter[column]=value parameters whose trimmed value is not empty
FiltersOf(q) ==
    [k \in { c \in DOMAIN q.filters : Trim(q.filters[c]) # <<>> } |->
        Trim(q.filters[k])]

----------------------------------------------------------------------------
\* Filter validation and the WHERE clause

\* The COLUMN_NAME IN (@col0, ...) lookup: the catalog's names, by ordinal
CatalogColumnsIn(d, names) ==
    SeqFilter(d.cols, { c \in SeqRange(d.cols) :
                          \E k \in names : CollationEq(d.ci, c, k) })

\* A route that skips the catalog lookup and takes every filter key as a column
RECURSIVE KeysInOrder(_, _)
KeysInOrder(names, keys) ==
    IF names = <<>> THEN <<>>
    ELSE (IF Head(names) \in keys THEN <<Head(names)>> ELSE <<>>)
         \o KeysInOrder(Tail(names), keys)

FilterColumnsUnvalidated(d, f, filters) ==
    KeysInOrder(<<"bogus", "id", "managerId">>, DOMAIN filters)

FilterColumns(d, f, filters) ==
    IF DOMAIN filters = {} \/ f.at = "validateFilters" THEN <<>>
    ELSE CatalogColumnsIn(d, DOMAIN filters)

ValidFilters(filterColumns, filters) ==
    SeqFilter(filterColumns,
              { c \in SeqRange(filterColumns) :
                  c \in DOMAIN filters /\ Trim(filters[c]) # <<>> })

\* `[${col}] LIKE @filter${index}`
WhereClause(validFilters) ==
    [i \in 1..Len(validFilters) |-> [col |-> validFilters[i], param |-> i - 1]]

\* A route that binds the pattern as it came, without the wildcards
FilterParamsUnwrapped(validFilters, filters) ==
    [i \in 1..Len(validFilters) |->
        [name |-> i - 1, value |-> filters[validFilters[i]]]]

FilterParams(validFilters, filters) ==
    [i \in 1..Len(validFilters) |->
        [name |-> i - 1, value |-> WildcardParam(filters[validFilters[i]])]]

----------------------------------------------------------------------------
\* The ORDER BY column

\* A route that takes any sort column as found
SortColumnUnvalidated(d, f, column) == TRUE

\* The COLUMN_NAME = @column lookup returned a row
SortColumnExists(d, f, column) ==
    /\ f.at # "validateSort"
    /\ \E c \in SeqRange(d.cols) : CollationEq(d.ci, c, column)

ValidatedSortColumn(d, f, sortColumn) ==
    IF sortColumn # "" /\ SortColumnExists(d, f, sortColumn) THEN sortColumn ELSE ""

\* A route that falls back to the table's last column
LastColumn(d, f) ==
    IF f.at = "structure" \/ d.cols = <<>> THEN "" ELSE d.cols[Len(d.cols)]

\* SELECT TOP 1 COLUMN_NAME ... ORDER BY ORDINAL_POSITION, '' when it throws
FirstColumn(d, f) ==
    IF f.at = "structure" \/ d.cols = <<>> THEN "" ELSE d.cols[1]

OrderByColumn(d, f, sortColumn) ==
    IF ValidatedSortColumn(d, f, sortColumn) # ""
    THEN ValidatedSortColumn(d, f, sortColumn)
    ELSE FirstColumn(d, f)

OrderByDirection(sortDirection) ==
    IF Upper(sortDirection) = "DESC" THEN "DESC" ELSE "ASC"

----------------------------------------------------------------------------
\* The foreign-key resolver

\* `${schema}.${table}`: the segments of the schema, then those of the table
TableKey(schema, table) == schema \o table

\* const [refSchema, refTable] = tableRef.split('.'): the first two segments
SplitSchema(tableRef) == IF Len(tableRef) >= 1 THEN <<tableRef[1]>> ELSE <<>>
SplitTable(tableRef) == IF Len(tableRef) >= 2 THEN <<tableRef[2]>> ELSE <<>>

UniqueRefTables(foreignKeys) ==
    { TableKey(fk.refSchema, fk.refTable) : fk \in SeqRange(foreignKeys) }

\* The tables whose columns the batched INFORMATION_SCHEMA.COLUMNS lookup
\* returns: those named by the split parameters of some table reference
BatchedTables(d, tableRefs) ==
    SeqFilter(d.refs,
              { r \in SeqRange(d.refs) :
                  \E t \in tableRefs :
                      r.schema = SplitSchema(t) /\ r.table = SplitTable(t) })

\* columnsByTable[tableKey] || []
ColumnsByTable(d, tableRefs, tableKey) ==
    Flatten([i \in 1..Len(BatchedTables(d, tableRefs)) |->
        IF TableKey(BatchedTables(d, tableRefs)[i].schema,
                    BatchedTables(d, tableRefs)[i].table) = tableKey
        THEN BatchedTables(d, tableRefs)[i].cols ELSE <<>>])

PreferredNames == <<"name", "title", "description", "code">>

StringTypes == {"varchar", "nvarchar", "char", "nchar", "text", "ntext"}

\* The string types that String.prototype.includes finds in a DATA_TYPE
TypesIncludedIn(dataType) ==
    CASE dataType = "varchar" -> {"varchar", "char"}
      [] dataType = "nvarchar" -> {"nvarchar", "varchar", "char"}
      [] dataType = "char" -> {"char"}
      [] dataType = "nchar" -> {"nchar", "char"}
      [] dataType = "text" -> {"text"}
      [] dataType = "ntext" -> {"ntext", "text"}
      [] OTHER -> {}

IsStringType(dataType) == StringTypes \cap TypesIncludedIn(Lower(dataType)) # {}

\* Array.prototype.find on the columns, 0 when there is none
FindColumn(refColumns, wanted) ==
    IF \E i \in 1..Len(refColumns) : refColumns[i] \in wanted
    THEN CHOOSE i \in 1..Len(refColumns) :
            /\ refColumns[i] \in wanted
            /\ \A j \in 1..(i - 1) : refColumns[j] \notin wanted
    ELSE 0

NamedLike(refColumns, preferredName) ==
    { c \in SeqRange(refColumns) : Lower(c.name) = Lower(preferredName) }

PreferredHits(refColumns) ==
    { p \in 1..Len(PreferredNames) : NamedLike(refColumns, PreferredNames[p]) # {} }

\* prefer name, title, description, code, or the first string column; ""
\* when there is none
DisplayColumn(refColumns) ==
    IF PreferredHits(refColumns) # {}
    THEN refColumns[FindColumn(refColumns,
            NamedLike(refColumns,
                PreferredNames[CHOOSE p \in PreferredHits(refColumns) :
                                  \A o \in PreferredHits(refColumns) : p <= o]))].name
    ELSE IF FindColumn(refColumns,
                { c \in SeqRange(refColumns) : IsStringType(c.type) }) # 0
         THEN refColumns[FindColumn(refColumns,
                { c \in SeqRange(refColumns) : IsStringType(c.type) })].name
         ELSE ""

\* `${fkColumn}_display`
DisplayField(fkColumn) ==
    CASE fkColumn = "managerId" -> "managerId_display"
      [] fkColumn = "deptId" -> "deptId_display"
      [] fkColumn = "id" -> "id_display"

FkJoin(fk, displayColumn) ==
    [alias |-> <<"fk_", fk.fkColumn>>,
     refSchema |-> fk.refSchema, refTable |-> fk.refTable,
     fkColumn |-> fk.fkColumn, refColumn |-> fk.refColumn,
     displayColumn |-> displayColumn]

ResolvedDisplay(d, foreignKeys, fk) ==
    DisplayColumn(ColumnsByTable(d, UniqueRefTables(foreignKeys),
                                 TableKey(fk.refSchema, fk.refTable)))

\* A resolver that joins every foreign key, bound to a display column or not
FkJoinsUnfiltered(d, foreignKeys) ==
    [i \in 1..Len(foreignKeys) |->
        FkJoin(foreignKeys[i], ResolvedDisplay(d, foreignKeys, foreignKeys[i]))]

\* fkJoins: one entry per foreign key that has a display column
FkJoins(d, foreignKeys) ==
    LET bound == { i \in 1..Len(foreignKeys) :
                     ResolvedDisplay(d, foreignKeys, foreignKeys[i]) # "" }
        joined == [i \in 1..Len(foreignKeys) |->
                     FkJoin(foreignKeys[i],
                            ResolvedDisplay(d, foreignKeys, foreignKeys[i]))]
    IN  SeqFilter(joined, { joined[i] : i \in bound })

\* fkDisplayColumns: fkColumn -> displayColumn
FkDisplayColumns(fkJoins) ==
    [c \in { j.fkColumn : j \in SeqRange(fkJoins) } |->
        (CHOOSE j \in SeqRange(fkJoins) : j.fkColumn = c).displayColumn]

WantsDisplay(fkDisplayMode) ==
    fkDisplayMode = "key-display" \/ fkDisplayMode = "display-only"

----------------------------------------------------------------------------
\* What SQL Server does with the queries the route builds

\* The columns of cols that the identifier [name] denotes
Resolve(ci, name, cols) == { c \in SeqRange(cols) : CollationEq(ci, c, name) }

\* The value of the bound parameter @filter<name>
ParamValue(params, name) ==
    (CHOOSE p \in SeqRange(params) : p.name = name).value

Declared(params, name) == \E p \in SeqRange(params) : p.name = name

\* The table [schema].[table] of a LEFT JOIN, as a set of at most one table
JoinedTable(d, join) ==
    { r \in SeqRange(d.refs) : r.schema = join.refSchema /\ r.table = join.refTable }

\* How many columns in scope an unqualified [name] denotes: those of the base
\* table and those of every joined table
InScope(d, joins, name) ==
    Cardinality(Resolve(d.ci, name, d.cols))
    + Len(Flatten([j \in 1..Len(joins) |->
            Flatten([t \in 1..Len(d.refs) |->
                IF d.refs[t] \in JoinedTable(d, joins[j])
                THEN SeqFilter(ColumnNames(d.refs[t].cols),
                               Resolve(d.ci, name, ColumnNames(d.refs[t].cols)))
                ELSE <<>>])]))

\* The WHERE clause compiles: every column is known and unambiguous, every
\* parameter declared
WhereCompiles(d, joins, where, params) ==
    \A i \in 1..Len(where) :
        /\ InScope(d, joins, where[i].col) = 1
        /\ Resolve(d.ci, where[i].col, d.cols) # {}
        /\ Declared(params, where[i].param)

BaseColumn(d, name) == CHOOSE c \in Resolve(d.ci, name, d.cols) : TRUE

\* The rows of the base table the WHERE clause keeps, as indices
MatchingRows(d, where, params) ==
    { r \in 1..Len(d.rows) :
        \A i \in 1..Len(where) :
            Like(d.rows[r][BaseColumn(d, where[i].col)],
                 ParamValue(params, where[i].param)) }

\* SELECT COUNT(*) as total FROM [schema].[table] WHERE ...
CountTotal(d, where, params) == Cardinality(MatchingRows(d, where, params))

\* The joins compile: the joined table exists and has the columns named
JoinsCompile(d, joins) ==
    \A j \in 1..Len(joins) :
        /\ JoinedTable(d, joins[j]) # {}
        /\ Resolve(d.ci, joins[j].fkColumn, d.cols) # {}
        /\ \A t \in JoinedTable(d, joins[j]) :
              /\ Resolve(d.ci, joins[j].refColumn, ColumnNames(t.cols)) # {}
              /\ Resolve(d.ci, joins[j].displayColumn, ColumnNames(t.cols)) # {}

\* The display values LEFT JOIN finds for a row: one per matching row of the
\* referenced table, NULL when none matches
JoinValues(d, join, row) ==
    LET t == CHOOSE r \in JoinedTable(d, join) : TRUE
        hits == { k \in 1..Len(t.rows) :
                    /\ row[join.fkColumn] # Null
                    /\ t.rows[k][join.refColumn] = row[join.fkColumn] }
        vals == [k \in 1..Len(t.rows) |->
                    IF k \in hits THEN <<t.rows[k][join.displayColumn]>> ELSE <<>>]
    IN  IF hits = {} THEN <<Null>> ELSE Flatten(vals)

\* rows LEFT JOIN ..., selecting the display column as [<fkColumn>_display]
LeftJoin(d, join, rows) ==
    Flatten([i \in 1..Len(rows) |->
        [v \in 1..Len(JoinValues(d, join, rows[i])) |->
            (DisplayField(join.fkColumn) :> JoinValues(d, join, rows[i])[v])
                @@ rows[i]]])

RECURSIVE LeftJoins(_, _, _)
LeftJoins(d, joins, rows) ==
    IF joins = <<>> THEN rows
    ELSE LeftJoins(d, Tail(joins), LeftJoin(d, Head(joins), rows))

\* The sort key of ORDER BY t.[column] direction
SortKey(d, rows, column, direction) ==
    [i \in 1..Len(rows) |->
        IF direction = "DESC" THEN 0 - rows[i][BaseColumn(d, column)]
        ELSE rows[i][BaseColumn(d, column)]]

Reorder(rows, order) == [k \in 1..Len(order) |-> rows[order[k]]]

\* OFFSET offset ROWS FETCH NEXT pageSize ROWS ONLY
OffsetFetch(rows, offset, pageSize) ==
    IF offset >= Len(rows) THEN <<>>
    ELSE SubSeq(rows, offset + 1, Min(offset + pageSize, Len(rows)))

\* A select item: every column of a relation (`[t].*`), one column of a
\* relation under a label, or COUNT(*)
SelectItem(kind, alias, column, as) ==
    [kind |-> kind, alias |-> alias, column |-> column, as |-> as]

\* The columns a select list puts in a result row, on a relation t that has
\* the columns of the base table (and rn when it is the numbered subquery)
SelectedColumns(d, select, rn) ==
    UNION { IF select[i].kind = "star"
            THEN SeqRange(d.cols) \cup (IF rn THEN {"rn"} ELSE {})
            ELSE {select[i].as} : i \in 1..Len(select) }

\* The rows as the select list returns them
SelectRows(d, plan, rows) ==
    LET selected == SelectedColumns(d, plan.select, plan.rn)
    IN  [k \in 1..Len(rows) |->
            [c \in (DOMAIN rows[k]) \cap selected |-> rows[k][c]]]

\* SELECT *, ROW_NUMBER() OVER (ORDER BY (SELECT NULL)) as rn
RowNumbered(rows) == [k \in 1..Len(rows) |-> ("rn" :> k) @@ rows[k]]

\* WHERE t.rn > @offset AND t.rn <= @offset + @pageSize
RowNumberWindow(rows, offset, pageSize) ==
    SeqFilter(rows, { r \in SeqRange(rows) :
                        r["rn"] > offset /\ r["rn"] <= offset + pageSize })

\* A route that returns the rows with the helper column
RnKept(row) == row

\* const { rn, ...rest } = row
StripRn(row) == [c \in (DOMAIN row) \ {"rn"} |-> row[c]]

\* The OFFSET/FETCH data query on the base rows taken in the given order
OffsetFetchQuery(d, plan, ordered) ==
    SelectRows(d, plan,
        OffsetFetch(LeftJoins(d, plan.joins, ordered), plan.offset, plan.pageSize))

\* The ROW_NUMBER data query on the base rows numbered in the given order,
\* with the helper column removed
RowNumberQuery(d, plan, ordered) ==
    LET page == SelectRows(d, plan,
                    LeftJoins(d, plan.joins,
                        RowNumberWindow(RowNumbered(ordered),
                                        plan.offset, plan.pageSize)))
    IN  [k \in 1..Len(page) |-> StripRn(page[k])]

\* The rows of [schema].[table] the WHERE clause keeps, in physical order
Filtered(d, plan) ==
    SeqFilter(d.rows, { d.rows[r] : r \in MatchingRows(d, plan.where, plan.params) })

\* The data query compiles and its parameters are accepted
DataCompiles(d, plan) ==
    /\ JoinsCompile(d, plan.joins)
    /\ WhereCompiles(d, IF plan.rn THEN <<>> ELSE plan.joins, plan.where, plan.params)
    /\ ~plan.rn => /\ Resolve(d.ci, plan.orderBy, d.cols) # {}
                   /\ plan.offset >= 0
                   /\ plan.pageSize > 0

\* Every result the OFFSET/FETCH data query may return: the joined rows in
\* any order ORDER BY t.[orderBy] allows, then the page
OffsetFetchResults(d, plan) ==
    LET joined == LeftJoins(d, plan.joins, Filtered(d, plan))
    IN  { SelectRows(d, plan,
              OffsetFetch(Reorder(joined, o), plan.offset, plan.pageSize)) :
            o \in Orders(1..Len(joined), SortKey(d, joined, plan.orderBy, plan.dir)) }

\* Every result the ROW_NUMBER data query may return: the rows numbered in
\* any order, the window joined, in any order ORDER BY t.rn allows
RowNumberResults(d, plan) ==
    LET rows == Filtered(d, plan)
    IN  UNION { LET page == LeftJoins(d, plan.joins,
                              RowNumberWindow(RowNumbered(Reorder(rows, n)),
                                              plan.offset, plan.pageSize))
                IN  { SelectRows(d, plan, Reorder(page, o)) :
                        o \in Orders(1..Len(page),
                                     [i \in 1..Len(page) |-> page[i]["rn"]]) } :
                n \in Orders(1..Len(rows), [i \in 1..Len(rows) |-> 0]) }

----------------------------------------------------------------------------
\* The result shaper

\* A shaper that copies the display value over the key and keeps both fields
DisplayCopiedColumn(row, fkCol) ==
    IF DisplayField(fkCol) \in DOMAIN row
    THEN [row EXCEPT ![fkCol] = row[DisplayField(fkCol)]]
    ELSE row

\* delete filteredRow[fkCol]; then the display value takes the key's name
DisplayOnlyColumn(row, fkCol) ==
    IF DisplayField(fkCol) \in DOMAIN row
    THEN [c \in ((DOMAIN row) \ {DisplayField(fkCol)}) \cup {fkCol} |->
            IF c = fkCol THEN row[DisplayField(fkCol)] ELSE row[c]]
    ELSE [c \in (DOMAIN row) \ {fkCol} |-> row[c]]

RECURSIVE DisplayOnlyRow(_, _)
DisplayOnlyRow(row, fkColumnNames) ==
    IF fkColumnNames = <<>> THEN row
    ELSE DisplayOnlyRow(DisplayOnlyColumn(row, Head(fkColumnNames)),
                        Tail(fkColumnNames))

ShapeRows(data, fkDisplayMode, fkJoins) ==
    IF fkDisplayMode = "display-only"
    THEN [k \in 1..Len(data) |->
            DisplayOnlyRow(data[k], [j \in 1..Len(fkJoins) |-> fkJoins[j].fkColumn])]
    ELSE data

\* The rows the route returns for one result of the data query
ReturnedRows(plan, result, fkDisplayMode) ==
    ShapeRows(IF plan.rn THEN [k \in 1..Len(result) |-> StripRn(result[k])]
              ELSE result,
              fkDisplayMode, plan.joins)

----------------------------------------------------------------------------
\* tableRoutes.get('/:schema/:table/data')

\* select: the select list; from: the table of req.params, written into
\* FROM [schema].[table]
Plan(select, from, rn, joins, where, params, orderBy, dir, offset, pageSize) ==
    [select |-> select, from |-> from, rn |-> rn, joins |-> joins,
     where |-> where, params |-> params,
     orderBy |-> orderBy, dir |-> dir, offset |-> offset, pageSize |-> pageSize]

NoPlan == Plan(<<>>, <<>>, FALSE, <<>>, <<>>, <<>>, "", "", 0, 0)

\* COUNT(*) as total
CountSelect == <<SelectItem("count", <<>>, "", "total")>>

\* baseSelects: `[t].*` in every mode
BaseSelects(fkDisplayMode, fkJoins) == <<SelectItem("star", <<"t">>, "", "")>>

\* fkSelects: `${alias}.[${displayColumn}] as [${fkColumn}_display]`
FkSelects(fkJoins) ==
    [j \in 1..Len(fkJoins) |->
        SelectItem("column", fkJoins[j].alias, fkJoins[j].displayColumn,
                   DisplayField(fkJoins[j].fkColumn))]

\* allSelects
AllSelects(fkDisplayMode, fkJoins) ==
    BaseSelects(fkDisplayMode, fkJoins) \o FkSelects(fkJoins)

\* The database has the table [schema].[table] of req.params
TableExists(d, q) == q.table = BaseTable

\* What the catalog and the queries find under the table of req.params:
\* nothing when the database has no such table
TableView(d, q) ==
    IF TableExists(d, q) THEN d
    ELSE [d EXCEPT !.cols = <<>>, !.rows = <<>>, !.fks = <<>>, !.refs = <<>>]

\* whereClause, built from the validated filters
WhereOf(d, f, q) ==
    LET filters == FiltersOf(q)
    IN  WhereClause(ValidFilters(FilterColumns(d, f, filters), filters))

\* filterParams
ParamsOf(d, f, q) ==
    LET filters == FiltersOf(q)
    IN  FilterParams(ValidFilters(FilterColumns(d, f, filters), filters), filters)

\* SELECT COUNT(*) as total FROM [schema].[table] <whereClause>
CountPlan(d, f, q) ==
    Plan(CountSelect, q.table, FALSE, <<>>, WhereOf(d, f, q), ParamsOf(d, f, q),
         "", "", 0, 0)

\* A route that joins the referenced tables in every display mode
JoinsInEveryMode(d, q) ==
    IF d.fks # <<>> THEN FkJoins(d, d.fks) ELSE <<>>

JoinsOf(d, q) ==
    IF WantsDisplay(FkDisplayModeOf(q)) /\ d.fks # <<>>
    THEN FkJoins(d, d.fks) ELSE <<>>

\* dataQuery: OFFSET/FETCH when there is an ORDER BY column, ROW_NUMBER else
DataPlan(d, f, q) ==
    LET orderBy == OrderByColumn(d, f, q.sortColumn)
        pageSize == PageSizeOf(q)
        joins == JoinsOf(d, q)
    IN  Plan(AllSelects(FkDisplayModeOf(q), joins), q.table, orderBy = "",
             joins, WhereOf(d, f, q), ParamsOf(d, f, q),
             orderBy, OrderByDirection(SortDirectionOf(q)),
             OffsetOf(PageOf(q), pageSize), pageSize)

\* generatedQuery: the same clauses with offset and pageSize as literals
GeneratedQuery(plan) == [plan EXCEPT !.params = <<>>]

Call(kind, plan, failed, err, caught) ==
    [kind |-> kind, plan |-> plan, failed |-> failed, err |-> err, caught |-> caught]

\* A route that validates the filter columns with one lookup per column
FilterLookupPerColumn(f, q) ==
    [i \in 1..Cardinality(DOMAIN FiltersOf(q)) |->
        Call("validateFilters", NoPlan, f.at = "validateFilters", f.err, TRUE)]

\* The catalog lookups that validate the filter columns: one for all of them
FilterLookups(f, q) ==
    IF DOMAIN FiltersOf(q) # {}
    THEN <<Call("validateFilters", NoPlan, f.at = "validateFilters", f.err, TRUE)>>
    ELSE <<>>

\* The lookups of the referenced tables' columns: one for all foreign keys
RefColumnLookups(d, f, q) ==
    IF WantsDisplay(FkDisplayModeOf(q)) /\ d.fks # <<>>
    THEN <<Call("refColumns", NoPlan, f.at = "refColumns", Rethrown(f.err), FALSE)>>
    ELSE <<>>

\* The executeQuery calls the handler makes when none of them throws past
\* its try block, with what each one does
Calls(db0, f, q) ==
    LET d == TableView(db0, q)
        count == CountPlan(d, f, q)
        data == DataPlan(d, f, q)
        display == WantsDisplay(FkDisplayModeOf(q))
    IN  FilterLookups(f, q)
        \o <<Call("count", count,
                  \/ f.at = "count"
                  \/ ~TableExists(db0, q)
                  \/ ~WhereCompiles(d, <<>>, count.where, count.params),
                  IF f.at = "count" THEN Rethrown(f.err) ELSE SqlError, FALSE)>>
        \o (IF q.sortColumn # ""
            THEN <<Call("validateSort", NoPlan, f.at = "validateSort", f.err, TRUE)>>
            ELSE <<>>)
        \o (IF ValidatedSortColumn(d, f, q.sortColumn) = ""
            THEN <<Call("structure", NoPlan, f.at = "structure", f.err, TRUE)>>
            ELSE <<>>)
        \o (IF display
            THEN <<Call("foreignKeys", NoPlan, f.at = "foreignKeys",
                        Rethrown(f.err), FALSE)>>
            ELSE <<>>)
        \o RefColumnLookups(d, f, q)
        \o <<Call("data", data,
                  f.at = "data" \/ ~TableExists(db0, q) \/ ~DataCompiles(d, data),
                  IF f.at = "data" THEN Rethrown(f.err) ELSE SqlError, FALSE)>>

\* The calls that throw out of the handler's try block
Throwing(calls) == { i \in 1..Len(calls) : calls[i].failed /\ ~calls[i].caught }

Response(status, timeout, data, query, page, pageSize, total, displays, mode) ==
    [status |-> status, timeout |-> timeout, data |-> data, query |-> query,
     page |-> page, pageSize |-> pageSize, total |-> total,
     totalPages |-> IF pageSize = 0 THEN 0 ELSE CeilDiv(total, pageSize),
     foreignKeyDisplays |-> displays, fkDisplayMode |-> mode, error |-> "",
     route |-> "data"]

\* error.message as the catch blocks see it
MessageOf(e) ==
    IF e.timeout THEN "Query execution timeout"
    ELSE IF e.auth THEN "Login failed for user" ELSE "Invalid object name"

\* { error: ... } without a page
Failure(status, timeout, message) ==
    [Response(status, timeout, <<>>, NoPlan, 0, 0, 0, <<>>, "")
        EXCEPT !.error = message]

NoResponse ==
    [Response(0, FALSE, <<>>, NoPlan, 0, 0, 0, <<>>, "") EXCEPT !.route = ""]

\* res.status(400).json({ error: 'Not connected to database' })
NotConnected == Failure(400, FALSE, "Not connected to database")

\* A catch block that reports every failure as a generic one
ErrorResponseGeneric(e) == Failure(500, FALSE, MessageOf(e))

\* The catch block: 408 with the timeout flag for a timeout, 500 otherwise
ErrorResponse(e) ==
    Failure(IF e.timeout THEN 408 ELSE 500, e.timeout, MessageOf(e))

\* A catch block that leaves the pool as it is
PoolKept(p, e) == p

\* The catch block disconnects the pool on an authentication error
PoolAfter(p, e) == IF e.auth THEN "null" ELSE p

\* res.json({ data, query, pagination, foreignKeyDisplays, fkDisplayMode })
Success(d, q, plan, result) ==
    Response(200, FALSE,
             ReturnedRows(plan, result, FkDisplayModeOf(q)),
             GeneratedQuery(plan),
             PageOf(q), PageSizeOf(q),
             CountTotal(d, plan.where, plan.params),
             FkDisplayColumns(plan.joins), FkDisplayModeOf(q))

DataResults(d, plan) ==
    IF plan.rn THEN RowNumberResults(d, plan) ELSE OffsetFetchResults(d, plan)

Outcome(response, calls, p) == [resp |-> response, log |-> calls, pool |-> p]

\* A route that does not look at the pool
AlwaysConnected(p) == TRUE

\* pool && pool.connected
Connected(p) == p = "connected"

\* Every way the handler may answer request q on pool p
Outcomes(d, f, p, q) ==
    IF ~Connected(p) THEN { Outcome(NotConnected, <<>>, p) }
    ELSE LET calls == Calls(d, f, q)
             thrown == Throwing(calls)
             plan == calls[Len(calls)].plan
         IN  IF thrown # {}
             THEN LET first == CHOOSE i \in thrown : \A j \in thrown : i <= j
                  IN  { Outcome(ErrorResponse(calls[first].err),
                                SubSeq(calls, 1, first),
                                PoolAfter(p, calls[first].err)) }
             ELSE { Outcome(Success(d, q, plan, result), calls, p) :
                      result \in DataResults(d, plan) }

----------------------------------------------------------------------------
\* The other routes that query the database: GET / (tables),
\* GET /:schema/:table (structure), POST /:schema/:table/related-data and
\* POST / of queryRoutes (query), each up to its first executeQuery call

OtherRoutes == {"tables", "structure", "related-data", "query"}

\* tableRoutes check getConnection() themselves; queryRoutes leaves it to
\* executeQueryMultiple, which throws 'Not connected to database'
ChecksPool(route) == route # "query"

\* Their catch blocks: disconnect on an authentication error, then 500
RouteFailure(route, message) ==
    [Failure(500, FALSE, message) EXCEPT !.route = route]

RouteSuccess(route) ==
    [Response(200, FALSE, <<>>, NoPlan, 0, 0, 0, <<>>, "") EXCEPT !.route = route]

\* How such a route answers on pool p
RouteOutcome(f, p, route) ==
    IF ~Connected(p)
    THEN IF ChecksPool(route)
         THEN Outcome([NotConnected EXCEPT !.route = route], <<>>, p)
         ELSE Outcome(RouteFailure(route, "Not connected to database"), <<>>, p)
    ELSE LET call == Call(route, NoPlan, f.at = "other", Rethrown(f.err), FALSE)
         IN  IF call.failed
             THEN Outcome(RouteFailure(route, MessageOf(call.err)), <<call>>,
                          PoolAfter(p, call.err))
             ELSE Outcome(RouteSuccess(route), <<call>>, p)

----------------------------------------------------------------------------
\* Requests and failures of the model

FilterKeys == {"id", "managerId", "bogus", "MANAGERID"}

NoFilters == [k \in FilterKeys |-> <<>>]

FilterInputs ==
    { NoFilters,
      [NoFilters EXCEPT !["managerId"] = <<" ", "1">>, !["bogus"] = <<"2">>],
      [NoFilters EXCEPT !["bogus"] = <<"1">>, !["managerId"] = <<" ">>],
      [NoFilters EXCEPT !["id"] = <<"1", " ">>, !["managerId"] = <<"1">>],
      [NoFilters EXCEPT !["MANAGERID"] = <<"1">>] }

SortInputs ==
    { <<"", "">>, <<"id", "desc">>, <<"managerId", "asc">>,
      <<"ID", "DESC">>, <<"bogus", "asc">> }

PagingInputs ==
    { <<Number(p), Number(s)>> : p \in 1..MaxPage, s \in 1..MaxPageSize }
    \cup { <<Absent, Word>>, <<Number(0), Number(0)>>,
           <<Number(0 - 1), Number(1)>>, <<Number(1), Number(0 - 1)>>,
           <<Number(1), Number(PageSizeCap + 1)>> }

ModeInputs == {"key-only", "key-display", "display-only"}

Request(paging, sort, mode, filters) ==
    [table |-> BaseTable, page |-> paging[1], pageSize |-> paging[2],
     sortColumn |-> sort[1], sortDirection |-> sort[2],
     fkDisplayMode |-> mode, filters |-> filters]

\* Requests for a table the database does not have
MissingTableRequests ==
    { [Request(<<Number(1), Number(1)>>, sort, mode, filters)
          EXCEPT !.table = <<"Missing">>] :
        sort \in {<<"", "">>, <<"id", "desc">>},
        mode \in {"key-only", "key-display"},
        filters \in {NoFilters, [NoFilters EXCEPT !["id"] = <<"1">>]} }

Requests ==
    { Request(paging, sort, mode, filters) :
        paging \in PagingInputs, sort \in SortInputs,
        mode \in ModeInputs, filters \in FilterInputs }
    \cup MissingTableRequests

NoRequest == Request(<<Absent, Absent>>, <<"", "">>, "", NoFilters)

Faults ==
    { FaultAt("validateFilters", SqlError), FaultAt("validateSort", SqlError),
      FaultAt("structure", TimeoutError), FaultAt("count", TimeoutError),
      FaultAt("foreignKeys", LoginError), FaultAt("refColumns", SqlError),
      FaultAt("data", SqlError), FaultAt("data", TimeoutError),
      FaultAt("data", LoginError),
      FaultAt("other", LoginError), FaultAt("other", TimeoutError) }

\* Failures are injected where every call of the route is made: on the full
\* table whose managerId references Employee(id, name)
FaultsOn(d) ==
    IF Len(d.rows) = MaxRows /\ Len(d.fks) = 1 /\ d.refs[1].table = <<"Employee">>
       /\ ColumnNames(d.refs[1].cols) = <<"id", "name">>
    THEN Faults \cup {NoFault} ELSE {NoFault}

----------------------------------------------------------------------------
\* The query text. A text is a sequence of tokens; tokens of one line are a
\* blank apart, except around a dot.
\*   kw     a keyword or punctuation, s = <<word>>
\*   nl     a line break followed by n blanks
\*   name   a bracketed or bare identifier, s = its segments (<<"Order",
\*          "Items">> is the one name [Order.Items], with a dot inside)
\*   alias  the join alias fk_<column>, s = <<"fk_", column>>
\*   dot, star
\*   num    the literal n
\*   param  the placeholder @filter<n>

Tok(kind, s, n) == [kind |-> kind, s |-> s, n |-> n]

Kw(word) == Tok("kw", <<word>>, 0)

\* `OFFSET ${offset} ROWS` sep `FETCH NEXT ${pageSize} ROWS ONLY`, or
\* `WHERE t.rn > ${offset} AND t.rn <= ${offset + pageSize}`
PaginationClause(rn, sep, offset, pageSize) ==
    LET t == Tok("name", <<"t">>, 0)
        dot == Tok("dot", <<>>, 0)
        rnCol == Tok("name", <<"rn">>, 0)
    IN  IF rn
        THEN <<Kw("WHERE"), t, dot, rnCol, Kw(">"), Tok("num", <<>>, offset),
               Kw("AND"), t, dot, rnCol, Kw("<="),
               Tok("num", <<>>, offset + pageSize)>>
        ELSE <<Kw("OFFSET"), Tok("num", <<>>, offset), Kw("ROWS")>> \o sep
             \o <<Kw("FETCH NEXT"), Tok("num", <<>>, pageSize), Kw("ROWS ONLY")>>

\* generatedQuery, as the text the response carries
RenderQuery(plan) ==
    LET t == Tok("name", <<"t">>, 0)
        dot == Tok("dot", <<>>, 0)
        rnCol == Tok("name", <<"rn">>, 0)
        nl(n) == Tok("nl", <<>>, n)
        \* allSelects, joined by ', '
        item(i) ==
            IF plan.select[i].kind = "star" THEN <<t, dot, Tok("star", <<>>, 0)>>
            ELSE <<Tok("alias", plan.select[i].alias, 0), dot,
                   Tok("name", <<plan.select[i].column>>, 0), Kw("as"),
                   Tok("name", <<plan.select[i].as>>, 0)>>
        select ==
            <<Kw("SELECT")>>
            \o Flatten([i \in 1..Len(plan.select) |->
                          (IF i > 1 THEN <<Kw(",")>> ELSE <<>>) \o item(i)])
        from ==
            <<Kw("FROM"), Tok("name", BaseSchema, 0), dot,
              Tok("name", plan.from, 0)>>
        \* '\n' + buildJoinClauses(baseTableAlias)
        join(j) ==
            <<Kw("LEFT JOIN"), Tok("name", plan.joins[j].refSchema, 0), dot,
              Tok("name", plan.joins[j].refTable, 0),
              Tok("alias", plan.joins[j].alias, 0), Kw("ON"),
              t, dot, Tok("name", <<plan.joins[j].fkColumn>>, 0), Kw("="),
              Tok("alias", plan.joins[j].alias, 0), dot,
              Tok("name", <<plan.joins[j].refColumn>>, 0)>>
        joins ==
            Flatten([j \in 1..Len(plan.joins) |->
                       <<nl(IF j = 1 THEN 0 ELSE 8)>> \o join(j)])
        \* '\n' + whereClause
        where(indent) ==
            IF plan.where = <<>> THEN <<>>
            ELSE <<nl(indent), Kw("WHERE")>>
                 \o Flatten([k \in 1..Len(plan.where) |->
                      (IF k > 1 THEN <<Kw("AND")>> ELSE <<>>)
                      \o <<Tok("name", <<plan.where[k].col>>, 0), Kw("LIKE"),
                           Tok("param", <<>>, plan.where[k].param)>>])
    IN  IF ~plan.rn
        THEN select \o <<nl(0)>> \o from \o <<t>> \o joins \o where(0)
             \o <<nl(0), Kw("ORDER BY"), t, dot,
                  Tok("name", <<plan.orderBy>>, 0), Kw(plan.dir), nl(0)>>
             \o PaginationClause(FALSE, <<nl(0)>>, plan.offset, plan.pageSize)
        ELSE select \o <<nl(0), Kw("FROM"), Kw("("), nl(2), Kw("SELECT"),
                         Tok("star", <<>>, 0), Kw(","), Kw("ROW_NUMBER() OVER ("),
                         Kw("ORDER BY"), Kw("(SELECT NULL))"), Kw("as"), rnCol,
                         nl(2)>>
             \o from \o where(2) \o <<nl(0), Kw(")"), t>> \o joins \o <<nl(0)>>
             \o PaginationClause(TRUE, <<>>, plan.offset, plan.pageSize)
             \o <<nl(0), Kw("ORDER BY"), t, dot, rnCol>>

----------------------------------------------------------------------------
\* generateQueryFromGrid

\* The three replacements of the pagination clause, one after the other. (The
\* fourth, of `SELECT TOP n`, finds nothing in a text without TOP.)
ReplacePagination(query, currentOffset, pageSize) ==
    LET IsKw(x, i, word) == i \in 1..Len(x) /\ x[i] = Kw(word)
        IsNum(x, i) == i \in 1..Len(x) /\ x[i].kind = "num"
        IsNl(x, i) == i \in 1..Len(x) /\ x[i].kind = "nl"
        \* OFFSET\s+\d+\s+ROWS, white space, FETCH\s+NEXT\s+\d+\s+ROWS\s+ONLY
        \* from token i: the number of tokens matched, or 0
        OffsetFetchAt(x, i) ==
            IF IsKw(x, i, "OFFSET") /\ IsNum(x, i + 1) /\ IsKw(x, i + 2, "ROWS")
            THEN LET j == IF IsNl(x, i + 3) THEN i + 4 ELSE i + 3
                 IN  IF /\ IsKw(x, j, "FETCH NEXT") /\ IsNum(x, j + 1)
                        /\ IsKw(x, j + 2, "ROWS ONLY")
                     THEN j + 3 - i ELSE 0
            ELSE 0
        \* the multiline pattern: the clause on a line of its own
        Multiline(x) ==
            LET scan[i \in 1..(Len(x) + 1)] ==
                    IF i > Len(x) THEN <<>>
                    ELSE IF IsNl(x, i) /\ OffsetFetchAt(x, i + 1) > 0
                         THEN <<Tok("nl", <<>>, 0)>>
                              \o PaginationClause(FALSE, <<Tok("nl", <<>>, 0)>>,
                                                  currentOffset, pageSize)
                              \o scan[i + 1 + OffsetFetchAt(x, i + 1)]
                         ELSE <<x[i]>> \o scan[i + 1]
            IN  scan[1]
        \* the one-line pattern: \s+ takes the line break before OFFSET and
        \* the one before FETCH, and a blank is written for each
        Oneline(x) ==
            LET scan[i \in 1..(Len(x) + 1)] ==
                    IF i > Len(x) THEN <<>>
                    ELSE IF IsNl(x, i) /\ OffsetFetchAt(x, i + 1) > 0
                         THEN PaginationClause(FALSE, <<>>, currentOffset, pageSize)
                              \o scan[i + 1 + OffsetFetchAt(x, i + 1)]
                         ELSE IF /\ i > 1 /\ ~IsNl(x, i - 1)
                                 /\ OffsetFetchAt(x, i) > 0
                              THEN PaginationClause(FALSE, <<>>, currentOffset,
                                                    pageSize)
                                   \o scan[i + OffsetFetchAt(x, i)]
                              ELSE <<x[i]>> \o scan[i + 1]
            IN  scan[1]
        HasDot(tok) == tok.kind = "dot" \/ (tok.kind = "name" /\ Len(tok.s) > 1)
        \* [^.]*\.rn\s*, op, \s*\d+ from token i: the token after the match,
        \* or 0. [^.]* runs over anything, line breaks too, up to the first dot
        RnTestAt(x, i, op) ==
            LET dots == { j \in i..Len(x) : HasDot(x[j]) }
                j == CHOOSE j \in dots : \A k \in dots : j <= k
            IN  IF /\ dots # {} /\ x[j].kind = "dot" /\ j < Len(x)
                   /\ x[j + 1] = Tok("name", <<"rn">>, 0)
                   /\ IsKw(x, j + 2, op) /\ IsNum(x, j + 3)
                THEN j + 4 ELSE 0
        \* WHERE\s+[^.]*\.rn\s*>\s*(\d+)\s+AND\s+[^.]*\.rn\s*<=\s*(\d+) from
        \* token i: the number of tokens matched, or 0
        RnWindowAt(x, i) ==
            IF ~IsKw(x, i, "WHERE") THEN 0
            ELSE LET a == RnTestAt(x, i + 1, ">")
                 IN  IF a = 0 \/ ~IsKw(x, a, "AND") THEN 0
                     ELSE LET b == RnTestAt(x, a + 1, "<=")
                          IN  IF b = 0 THEN 0 ELSE b - i
        Window(x) ==
            LET scan[i \in 1..(Len(x) + 1)] ==
                    IF i > Len(x) THEN <<>>
                    ELSE IF RnWindowAt(x, i) > 0
                         THEN PaginationClause(TRUE, <<>>, currentOffset, pageSize)
                              \o scan[i + RnWindowAt(x, i)]
                         ELSE <<x[i]>> \o scan[i + 1]
            IN  scan[1]
    IN  CHOOSE q3 \in { Window(q2) : q2 \in { Oneline(q1) :
                                              q1 \in {Multiline(query)} } } : TRUE

\* The SELECT clause rebuilt from the visible columns; foreignKeyMap[col] is
\* a column of tableStructure that references a table
ReplaceSelectList(query, visibleCols, allColIds, fkDisplayMode, tableStructure, foreignKeyDisplays) ==
    LET t == Tok("name", <<"t">>, 0)
        dot == Tok("dot", <<>>, 0)
        foreignKeyMap ==
            { tableStructure[i].fkColumn : i \in 1..Len(tableStructure) }
        bound(col) == col \in foreignKeyMap /\ col \in DOMAIN foreignKeyDisplays
        baseColumns ==
            Flatten([i \in 1..Len(visibleCols) |->
                IF fkDisplayMode = "display-only" /\ visibleCols[i] \in foreignKeyMap
                THEN <<>>
                ELSE << <<t, dot, Tok("name", <<visibleCols[i]>>, 0)>> >>])
        displayColumns ==
            Flatten([i \in 1..Len(visibleCols) |->
                IF WantsDisplay(fkDisplayMode) /\ bound(visibleCols[i])
                THEN << <<Tok("alias", <<"fk_", visibleCols[i]>>, 0), dot,
                          Tok("name", <<foreignKeyDisplays[visibleCols[i]]>>, 0),
                          Kw("as"),
                          Tok("name",
                              <<IF fkDisplayMode = "key-display"
                                THEN DisplayField(visibleCols[i])
                                ELSE visibleCols[i]>>, 0)>> >>
                ELSE <<>>])
        allSelectedColumns == baseColumns \o displayColumns
        columnList ==
            IF Len(allSelectedColumns) > 0
            THEN Flatten([i \in 1..Len(allSelectedColumns) |->
                            (IF i > 1 THEN <<Kw(",")>> ELSE <<>>)
                            \o allSelectedColumns[i]])
            ELSE <<t, dot, Tok("star", <<>>, 0)>>
        \* indexOf('\nFROM'): FROM at the start of a line
        lineFroms == { i \in 2..(Len(query) - 1) :
                         query[i] = Tok("nl", <<>>, 0) /\ query[i + 1] = Kw("FROM") }
        \* indexOf('FROM')
        froms == { i \in 2..Len(query) : query[i] = Kw("FROM") }
        first(S) == CHOOSE i \in S : \A j \in S : i <= j
    IN  IF Len(visibleCols) < Len(allColIds) \/ WantsDisplay(fkDisplayMode)
        THEN IF lineFroms # {}
             THEN <<Kw("SELECT")>> \o columnList \o <<Tok("nl", <<>>, 0)>>
                  \o SubSeq(query, first(lineFroms) + 1, Len(query))
             ELSE IF froms # {}
                  THEN <<Kw("SELECT")>> \o columnList \o <<Tok("nl", <<>>, 0)>>
                       \o SubSeq(query, first(froms), Len(query))
                  ELSE query
        ELSE query

\* The text for the grid as it stands. baseQuery is data?.query, <<>> without
\* data. The texts have no run of line breaks and none at either end, so the
\* clean-up of white space leaves them as they are.
GenerateQueryFromGrid(baseQuery, schema, table, page, pageSize, visibleCols, allColIds, fkDisplayMode, tableStructure, foreignKeyDisplays) ==
    LET t == Tok("name", <<"t">>, 0)
        dot == Tok("dot", <<>>, 0)
        nl == Tok("nl", <<>>, 0)
        first(S) == CHOOSE i \in S : \A j \in S : i <= j
        currentOffset == (page - 1) * pageSize
        \* the text without a server query
        basic ==
            <<Kw("SELECT")>>
            \o (IF Len(visibleCols) = Len(allColIds) THEN <<Tok("star", <<>>, 0)>>
                ELSE Flatten([i \in 1..Len(visibleCols) |->
                        (IF i > 1 THEN <<Kw(",")>> ELSE <<>>)
                        \o <<Tok("name", <<visibleCols[i]>>, 0)>>]))
            \o <<nl, Kw("FROM"), Tok("name", schema, 0), dot, Tok("name", table, 0)>>
        \* the JOINs of the table structure, when the text has none
        joins ==
            Flatten([i \in 1..Len(tableStructure) |->
                <<nl, Kw("LEFT JOIN"),
                  Tok("name", tableStructure[i].refSchema, 0), dot,
                  Tok("name", tableStructure[i].refTable, 0),
                  Tok("alias", <<"fk_", tableStructure[i].fkColumn>>, 0),
                  Kw("ON"), t, dot,
                  Tok("name", <<tableStructure[i].fkColumn>>, 0), Kw("="),
                  Tok("alias", <<"fk_", tableStructure[i].fkColumn>>, 0), dot,
                  Tok("name", <<tableStructure[i].refColumn>>, 0)>>])
        \* FROM\s+\[([^\]]+)\]\.\[([^\]]+)\]\s+([^\s\n]+): the last token of
        \* the match, for a match that starts at token i
        FromEnd(x, i) == IF x[i + 4].kind = "nl" THEN i + 5 ELSE i + 4
        FromMatches(x) ==
            { i \in 1..(Len(x) - 4) :
                /\ x[i] = Kw("FROM")
                /\ x[i + 1].kind = "name" /\ x[i + 2].kind = "dot"
                /\ x[i + 3].kind = "name"
                /\ FromEnd(x, i) <= Len(x) }
        AddJoins(x) ==
            IF /\ WantsDisplay(fkDisplayMode)
               /\ \A i \in 1..Len(x) : x[i] # Kw("LEFT JOIN")
               /\ joins # <<>>
               /\ FromMatches(x) # {}
            THEN SubSeq(x, 1, FromEnd(x, first(FromMatches(x)))) \o joins
                 \o SubSeq(x, FromEnd(x, first(FromMatches(x))) + 1, Len(x))
            ELSE x
        \* OFFSET\s+\d+\s+ROWS or \.rn\s*> somewhere in the text
        Paginated(x) ==
            \E i \in 1..(Len(x) - 2) :
                \/ /\ x[i] = Kw("OFFSET") /\ x[i + 1].kind = "num"
                   /\ x[i + 2] = Kw("ROWS")
                \/ /\ x[i].kind = "dot" /\ x[i + 1] = Tok("name", <<"rn">>, 0)
                   /\ x[i + 2] = Kw(">")
        clause == <<nl>> \o PaginationClause(FALSE, <<nl>>, currentOffset, pageSize)
        \* (ORDER\s+BY\s+[^\n]+): the ORDER BY up to the end of its line
        OrderBys(x) == { i \in 1..(Len(x) - 1) :
                          x[i] = Kw("ORDER BY") /\ x[i + 1].kind # "nl" }
        Breaks(x, i) == { j \in i..Len(x) : x[j].kind = "nl" }
        LineEnd(x, i) ==
            IF Breaks(x, i) = {} THEN Len(x) ELSE first(Breaks(x, i)) - 1
        EnsurePagination(x) ==
            IF Paginated(x) THEN x
            ELSE IF OrderBys(x) # {}
                 THEN SubSeq(x, 1, LineEnd(x, first(OrderBys(x)))) \o clause
                      \o SubSeq(x, LineEnd(x, first(OrderBys(x))) + 1, Len(x))
                 ELSE x \o clause
    IN  IF baseQuery = <<>> THEN basic
        ELSE CHOOSE query \in
                { EnsurePagination(joined) : joined \in
                    { AddJoins(selected) : selected \in
                        { ReplaceSelectList(paged, visibleCols, allColIds,
                                            fkDisplayMode, tableStructure,
                                            foreignKeyDisplays) : paged \in
                            { ReplacePagination(baseQuery, currentOffset,
                                                pageSize) } } } } : TRUE

\* The grid before the client opens a table
GridIdle ==
    /\ grid = [page |-> 0, pageSize |-> 0, fkDisplayMode |-> "", hidden |-> {}]
    /\ text = <<>>

----------------------------------------------------------------------------
\* mssql.ts: connect(), disconnect() and getConnection() on the module-level
\* pool. A call runs until it awaits the driver and goes on when the driver
\* settles what it awaits; the driver settles the awaited operations in any
\* order.

NoPool == 0

\* A call: the function called, where it stands ("close": awaiting
\* pool.close(), "connect": awaiting pool.connect(), "returned", "threw") and
\* the pool object it awaits
Task(op, at, awaited) == [op |-> op, at |-> at, awaited |-> awaited]

\* getConnection() and the handlers' test pool && pool.connected
GetConnection(ps, cur) == IF cur = NoPool THEN "null" ELSE ps[cur]

PoolIdle ==
    /\ pools = <<>>
    /\ current = NoPool
    /\ tasks = <<>>
    /\ installed = NoPool

\* No call has been made; the table-data route and the grid are at rest
PoolInit ==
    /\ PoolIdle
    /\ GridIdle
    /\ db = Database(FALSE, PlainCols, PlainRows(0), <<>>, <<>>)
    /\ fault = NoFault
    /\ pool = "null"
    /\ req = NoRequest
    /\ resp = NoResponse
    /\ log = <<>>

\* disconnect() up to its await, for a call of op: with no pool it returns at
\* once (and connect() goes on to `pool = new sql.ConnectionPool(poolConfig)`
\* and awaits pool.connect()), else it awaits pool.close(), from which on
\* the pool object is not connected
BeginDisconnect(op) ==
    /\ Len(tasks) < MaxCalls
    /\ installed' = NoPool
    /\ IF current = NoPool
       THEN IF op = "connect"
            THEN /\ pools' = Append(pools, "connecting")
                 /\ current' = Len(pools) + 1
                 /\ tasks' = Append(tasks, Task(op, "connect", Len(pools) + 1))
            ELSE /\ tasks' = Append(tasks, Task(op, "returned", NoPool))
                 /\ UNCHANGED <<pools, current>>
       ELSE /\ pools' = [pools EXCEPT ![current] = "closed"]
            /\ tasks' = Append(tasks, Task(op, "close", current))
            /\ UNCHANGED current

\* connect(config) is called: await disconnect(), then the new pool
ConnectCall ==
    /\ BeginDisconnect("connect")
    /\ UNCHANGED <<serverVars, gridVars>>

\* disconnect() is called
DisconnectCall ==
    /\ BeginDisconnect("disconnect")
    /\ UNCHANGED <<serverVars, gridVars>>

\* The pool.close() a call awaits settles: disconnect() sets pool = null and
\* returns; a connect() goes on with `pool = new sql.ConnectionPool(poolConfig)`
\* and awaits pool.connect()
CloseSettled(t) ==
    /\ tasks[t].at = "close"
    /\ IF tasks[t].op = "connect"
       THEN /\ pools' = Append(pools, "connecting")
            /\ current' = Len(pools) + 1
            /\ tasks' = [tasks EXCEPT
                            ![t] = Task("connect", "connect", Len(pools) + 1)]
       ELSE /\ current' = NoPool
            /\ tasks' = [tasks EXCEPT ![t] = Task("disconnect", "returned", NoPool)]
            /\ UNCHANGED pools
    /\ UNCHANGED installed
    /\ UNCHANGED <<serverVars, gridVars>>

\* The pool.connect() a connect() awaits resolves: connect() returns
ConnectResolved(t) ==
    /\ tasks[t].at = "connect"
    /\ pools' = [pools EXCEPT ![tasks[t].awaited] = "connected"]
    /\ tasks' = [tasks EXCEPT ![t] = Task("connect", "returned", tasks[t].awaited)]
    /\ installed' = tasks[t].awaited
    /\ UNCHANGED current
    /\ UNCHANGED <<serverVars, gridVars>>

\* The pool.connect() a connect() awaits rejects: connect() sets pool = null
\* and throws
ConnectRejected(t) ==
    /\ tasks[t].at = "connect"
    /\ current' = NoPool
    /\ tasks' = [tasks EXCEPT ![t] = Task("connect", "threw", tasks[t].awaited)]
    /\ UNCHANGED <<pools, installed>>
    /\ UNCHANGED <<serverVars, gridVars>>

PoolNext ==
    \/ ConnectCall
    \/ DisconnectCall
    \/ \E t \in 1..Len(tasks) : CloseSettled(t)
    \/ \E t \in 1..Len(tasks) : ConnectResolved(t)
    \/ \E t \in 1..Len(tasks) : ConnectRejected(t)

PoolSpec == PoolInit /\ [][PoolNext]_vars

----------------------------------------------------------------------------
\* The grid

\* The column ids of the grid: the keys of the first row, without the
\* *_display columns
ColumnIds(d, data) ==
    IF data = <<>> THEN <<>> ELSE SeqFilter(d.cols, DOMAIN data[1])

\* The grid shows the answer to a table-data request, made with or without
\* a sort column and a filter and answered with or without the lookup of the
\* first column failing; the user has since paged, resized the page, switched
\* the display mode and hidden a column
GridInit ==
    /\ db \in DatabasesOfSize(MaxRows)
    /\ fault \in {NoFault, FaultAt("structure", TimeoutError)}
    /\ \E sort \in {<<"", "">>, <<"id", "desc">>}, mode \in ModeInputs,
          filters \in {NoFilters, [NoFilters EXCEPT !["managerId"] = <<"1">>]} :
       \E out \in Outcomes(db, fault, "connected",
                           Request(<<Number(1), Number(MaxPageSize)>>,
                                   sort, mode, filters)) :
          /\ req = Request(<<Number(1), Number(MaxPageSize)>>, sort, mode, filters)
          /\ resp = out.resp
          /\ log = out.log
          /\ pool = out.pool
    /\ grid \in [page : 1..MaxPage, pageSize : 1..MaxPageSize,
                 fkDisplayMode : ModeInputs,
                 hidden : {{}, {"id"}, {"managerId"}}]
    /\ text = <<>>
    /\ PoolIdle

\* handleCreateQuery: the text for the grid as it stands
HandleCreateQuery ==
    /\ text = <<>>
    /\ \E baseQuery \in {IF resp.status = 200 THEN RenderQuery(resp.query)
                          ELSE <<>>} :
       \E allColIds \in {ColumnIds(db, IF resp.status = 200 THEN resp.data
                                       ELSE <<>>)} :
       \E visibleCols \in {SeqFilter(allColIds,
                                     SeqRange(allColIds) \ grid.hidden)} :
          text' = GenerateQueryFromGrid(baseQuery, BaseSchema, req.table,
                                        grid.page, grid.pageSize, visibleCols,
                                        allColIds, grid.fkDisplayMode, db.fks,
                                        resp.foreignKeyDisplays)
    /\ UNCHANGED <<serverVars, poolVars, grid>>

GridNext == HandleCreateQuery

GridSpec == GridInit /\ [][GridNext]_vars

----------------------------------------------------------------------------
\* The specification

Init ==
    /\ db \in Databases
    /\ fault \in FaultsOn(db)
    /\ pool = "connected"
    /\ req = NoRequest
    /\ resp = NoResponse
    /\ log = <<>>
    /\ PoolIdle
    /\ GridIdle

\* A table-data request is handled. The client's first request has any
\* parameters; after it the client sends the same request again.
GetTableData(q) ==
    /\ \E out \in Outcomes(db, fault, pool, q) :
          /\ req' = q
          /\ resp' = out.resp
          /\ log' = out.log
          /\ pool' = out.pool
    /\ UNCHANGED <<db, fault>>
    /\ UNCHANGED <<poolVars, gridVars>>

\* A request to one of the other routes, before the client opens the table
OtherRequest(route) ==
    /\ req = NoRequest
    /\ resp' = RouteOutcome(fault, pool, route).resp
    /\ log' = RouteOutcome(fault, pool, route).log
    /\ pool' = RouteOutcome(fault, pool, route).pool
    /\ UNCHANGED <<db, fault, req>>
    /\ UNCHANGED <<poolVars, gridVars>>

Next ==
    \/ resp.status = 0 /\ \E q \in Requests : GetTableData(q)
    \/ resp.status # 0 /\ GetTableData(req)
    \/ \E route \in OtherRoutes : OtherRequest(route)

Spec == Init /\ [][Next]_vars

----------------------------------------------------------------------------
\* The vocabulary of the properties

\* The last request was answered with its page of rows
Served == resp.status = 200 /\ resp.route = "data"

\* The data queries the last request handed to executeQuery
DataCalls == { i \in 1..Len(log) : log[i].kind = "data" }

\* The count and data queries the last request handed to executeQuery
BuiltCalls == { i \in 1..Len(log) : log[i].kind \in {"count", "data"} }

\* The data query of a served request
ServedPlan == log[Len(log)].plan

ValidPaging ==
    resp.page >= 1 /\ resp.pageSize >= 1 /\ resp.pageSize <= PageSizeCap

WhereColumns(plan) == { plan.where[i].col : i \in 1..Len(plan.where) }

\* The filter keys of the request that name no column of the table
InvalidFilterKeys ==
    { k \in DOMAIN FiltersOf(req) : Resolve(db.ci, k, db.cols) = {} }

\* The request q without its filters on keys
Without(q, keys) ==
    [q EXCEPT !.filters = [k \in DOMAIN q.filters |->
                              IF k \in keys THEN <<>> ELSE q.filters[k]]]

\* The pool as the last request found it
PoolBefore == IF resp = NotConnected THEN "null" ELSE "connected"

SortColumnAbsent ==
    req.sortColumn = "" \/ Resolve(db.ci, req.sortColumn, db.cols) = {}

StructureLookupFailed ==
    \E j \in 1..Len(log) : log[j].kind = "structure" /\ log[j].failed

\* The columns of the table a foreign key references
ReferencedColumns(fk) ==
    (CHOOSE t \in SeqRange(db.refs) :
        t.schema = fk.refSchema /\ t.table = fk.refTable).cols

\* The display column the heuristic asks for, "" for none
ExpectedDisplay(cols) ==
    LET named(p) == { i \in 1..Len(cols) : Lower(cols[i].name) = p }
        present == { p \in 1..Len(PreferredNames) : named(PreferredNames[p]) # {} }
        strings == { i \in 1..Len(cols) : Lower(cols[i].type) \in StringTypes }
        least(S) == CHOOSE i \in S : \A j \in S : i <= j
    IN  IF present # {}
        THEN cols[least(named(PreferredNames[least(present)]))].name
        ELSE IF strings # {} THEN cols[least(strings)].name ELSE ""

\* T(id, managerId) whose managerId has a display binding
ManagerIdBound ==
    /\ db.cols = PlainCols
    /\ db.fks # <<>>
    /\ ResolvedDisplay(db, db.fks, db.fks[1]) # ""

----------------------------------------------------------------------------
\* Properties

\* C1: a served request with page >= 1 and 1 <= pageSize <= 1000 returns,
\* in every display mode and on both pagination paths, exactly
\* min(pageSize, total - offset) rows when offset < total and no row
\* otherwise, where offset = (page - 1) * pageSize.
C1_RowCount ==
    (Served /\ ValidPaging) =>
        LET offset == (resp.page - 1) * resp.pageSize
        IN  Len(resp.data) = IF offset < resp.total
                             THEN Min(resp.pageSize, resp.total - offset)
                             ELSE 0

\* C2: a served request for page p of size s on n matching rows carries the
\* rows at positions (p-1)*s+1 .. min(p*s, n) of the table taken in an order
\* the ORDER BY allows, and totalPages = ceil(n / s).
C2_PagePositions ==
    (Served /\ ValidPaging) =>
        LET plan == ServedPlan
            matching == MatchingRows(db, plan.where, plan.params)
            key == [i \in matching |->
                      IF plan.rn THEN 0
                      ELSE IF plan.dir = "DESC"
                           THEN 0 - db.rows[i][BaseColumn(db, plan.orderBy)]
                           ELSE db.rows[i][BaseColumn(db, plan.orderBy)]]
            n == resp.total
            first == (resp.page - 1) * resp.pageSize + 1
            last == Min(resp.page * resp.pageSize, n)
        IN  /\ resp.totalPages = CeilDiv(n, resp.pageSize)
            /\ Len(resp.data) = IF first <= last THEN last - first + 1 ELSE 0
            /\ \E o \in Orders(matching, key) :
                  \A k \in 1..Len(resp.data) :
                      resp.data[k]["id"] = db.rows[o[first + k - 1]]["id"]

\* C3 as stated: whenever the requested sort column is absent from the
\* catalog (or none is given) and the table has a column, the data query is
\* ordered by the table's first column by ordinal position.
C3_SortFallbackAlways ==
    \A i \in DataCalls :
        (SortColumnAbsent /\ db.cols # <<>>) =>
            (~log[i].plan.rn /\ log[i].plan.orderBy = db.cols[1])

\* C3: whenever the requested sort column is absent from the catalog (or
\* none is given), the table has a column and the first-column lookup does
\* not fail, the data query is ordered by the table's first column by ordinal
\* position; when that lookup fails the data query is paginated by ROW_NUMBER
\* and is ordered by no column of the table.
C3_SortFallback ==
    \A i \in DataCalls :
        (SortColumnAbsent /\ db.cols # <<>>) =>
            IF StructureLookupFailed
            THEN log[i].plan.rn /\ log[i].plan.orderBy = ""
            ELSE ~log[i].plan.rn /\ log[i].plan.orderBy = db.cols[1]

C3_Witness ==
    /\ Served
    /\ req.sortColumn = "bogus"
    /\ ~StructureLookupFailed
    /\ ServedPlan.orderBy = "id"
    /\ Len(resp.data) >= 2

\* C4: a filter whose key names no column of the table appears in the WHERE
\* clause of no count query, data query or generated query, and the request
\* is answered with the status it has without that filter.
C4_FilterSafety ==
    LET invalid == InvalidFilterKeys
    IN  invalid # {} =>
            /\ \A i \in BuiltCalls : WhereColumns(log[i].plan) \cap invalid = {}
            /\ WhereColumns(resp.query) \cap invalid = {}
            /\ resp.status \in
                 { o.resp.status :
                     o \in Outcomes(db, fault, PoolBefore, Without(req, invalid)) }

C4_Witness ==
    /\ Served
    /\ "bogus" \in InvalidFilterKeys
    /\ WhereColumns(resp.query) = {"managerId"}
    /\ resp.data # <<>>

\* C5: in a display mode, every foreign key is bound to the column of the
\* referenced table named like the earliest present of name, title,
\* description, code; failing that to its first string-typed column by
\* ordinal; and to nothing when it has neither.
C5_DisplayHeuristic ==
    (Served /\ WantsDisplay(resp.fkDisplayMode)) =>
        \A fk \in SeqRange(db.fks) :
            LET expected == ExpectedDisplay(ReferencedColumns(fk))
            IN  IF expected = ""
                THEN fk.fkColumn \notin DOMAIN resp.foreignKeyDisplays
                ELSE /\ fk.fkColumn \in DOMAIN resp.foreignKeyDisplays
                     /\ resp.foreignKeyDisplays[fk.fkColumn] = expected

\* C6: for T(id, managerId) whose managerId has a display binding, a returned
\* row has the fields {id, managerId} in key-only mode, {id, managerId,
\* managerId_display} in key-display mode, and {id, managerId} in display-only
\* mode, where managerId holds the display value of the referenced row.
C6_DisplayModeShape ==
    (Served /\ ManagerIdBound) =>
        LET display == ResolvedDisplay(db, db.fks, db.fks[1])
            employees == SeqRange(db.refs[1].rows)
            base(id) == CHOOSE r \in SeqRange(db.rows) : r["id"] = id
            shown(key) ==
                IF key # Null /\ \E e \in employees : e["id"] = key
                THEN (CHOOSE e \in employees : e["id"] = key)[display]
                ELSE Null
        IN  \A k \in 1..Len(resp.data) :
                LET row == resp.data[k]
                IN  /\ "id" \in DOMAIN row
                    /\ \E r \in SeqRange(db.rows) : r["id"] = row["id"]
                    /\ CASE resp.fkDisplayMode = "key-only" ->
                              row = base(row["id"])
                         [] resp.fkDisplayMode = "key-display" ->
                              /\ DOMAIN row = {"id", "managerId", "managerId_display"}
                              /\ row["managerId"] = base(row["id"])["managerId"]
                              /\ row["managerId_display"] =
                                     shown(base(row["id"])["managerId"])
                         [] resp.fkDisplayMode = "display-only" ->
                              /\ DOMAIN row = {"id", "managerId"}
                              /\ row["managerId"] =
                                     shown(base(row["id"])["managerId"])

C6_Witness ==
    /\ Served
    /\ ManagerIdBound
    /\ resp.fkDisplayMode = "display-only"
    /\ Len(resp.data) >= 2
    /\ resp.data[1]["managerId"] > 10

\* C7: on the same ordered rows, with the same filters, page and page size,
\* the OFFSET/FETCH query and the ROW_NUMBER query (helper column removed)
\* return the same sequence of rows.
C7_PaginationEquivalence ==
    (Served /\ ~resp.query.rn) =>
        LET plan == ServedPlan
            rows == Filtered(db, plan)
        IN  \A o \in Orders(1..Len(rows),
                            SortKey(db, rows, plan.orderBy, plan.dir)) :
                OffsetFetchQuery(db, plan, Reorder(rows, o))
                    = RowNumberQuery(db, plan, Reorder(rows, o))

\* C8: a request repeated with the same parameters on the unchanged database
\* is served the same rows in the same order and the same total.
C8_Idempotent ==
    [][(Served /\ Served' /\ req' = req /\ db' = db)
          => (resp'.data = resp.data /\ resp'.total = resp.total)]_vars

\* C9: whatever the raw page and pageSize parameters are, the data query is
\* built with page >= 1, 1 <= pageSize <= 1000 and
\* offset = (page - 1) * pageSize >= 0.
C9_PagingInRange ==
    \A i \in DataCalls :
        /\ PageOf(req) >= 1
        /\ log[i].plan.pageSize >= 1
        /\ log[i].plan.pageSize <= PageSizeCap
        /\ log[i].plan.offset = (PageOf(req) - 1) * log[i].plan.pageSize
        /\ log[i].plan.offset >= 0

\* C10: every column written into a count query, a data query or the
\* generated query names a column of the catalog: filter columns and join
\* key columns are catalog names of the table, the ORDER BY column is one the
\* catalog lookup finds under the database's collation, and the referenced and
\* display columns of a join are catalog names of the referenced table.
C10_IdentifiersFromCatalog ==
    \A plan \in { log[i].plan : i \in BuiltCalls } \cup {resp.query} :
        /\ WhereColumns(plan) \subseteq SeqRange(db.cols)
        /\ plan.orderBy # "" => Resolve(db.ci, plan.orderBy, db.cols) # {}
        /\ \A j \in 1..Len(plan.joins) :
              /\ plan.joins[j].fkColumn \in SeqRange(db.cols)
              /\ \E t \in SeqRange(db.refs) :
                    /\ t.schema = plan.joins[j].refSchema
                    /\ t.table = plan.joins[j].refTable
                    /\ {plan.joins[j].refColumn, plan.joins[j].displayColumn}
                           \subseteq SeqRange(ColumnNames(t.cols))

C10_Witness ==
    /\ Served
    /\ req.sortColumn = "bogus"
    /\ "bogus" \in DOMAIN FiltersOf(req)
    /\ ServedPlan.orderBy = "id"
    /\ ServedPlan.where # <<>>
    /\ ServedPlan.joins # <<>>

\* The tables the catalog enumerates
CatalogTables == {BaseTable} \cup { r.table : r \in SeqRange(db.refs) }

\* C11: the table written into the FROM clause of every count query and
\* data query handed to executeQuery is a table the catalog enumerates; a
\* table name of the request that the catalog does not have reaches no query.
C11_TablesFromCatalog ==
    \A i \in BuiltCalls : log[i].plan.from \in CatalogTables

FilterLookupFailed ==
    \E j \in 1..Len(log) : log[j].kind = "validateFilters" /\ log[j].failed

\* The validated filters of the request: the columns of its table, by
\* ordinal, that it filters with a non-empty pattern, and none when the
\* lookup that validates them failed
ValidatedFilters ==
    IF FilterLookupFailed THEN <<>>
    ELSE SeqFilter(TableView(db, req).cols, DOMAIN FiltersOf(req))

Lookups(kind) == { i \in 1..Len(log) : log[i].kind = kind }

\* C13: a served request's count query and data query have the same filter
\* predicate and the same filter parameters, and the total counted is the
\* number of rows the data query pages over.
C13_CountAgrees ==
    Served =>
        LET count == log[CHOOSE i \in Lookups("count") : TRUE].plan
            data == ServedPlan
        IN  /\ count.where = data.where
            /\ count.params = data.params
            /\ resp.total = Len(LeftJoins(db, data.joins, Filtered(db, data)))

\* C14: a table-data request that queries the database validates its filter
\* columns with exactly one catalog lookup when it has filters (none when it
\* has none), however many columns it filters, and looks up the columns of
\* the referenced tables at most once, exactly once when it is served in a
\* display mode on a table with foreign keys, however many they are.
C14_BatchedLookups ==
    (resp.route = "data" /\ log # <<>>) =>
        /\ Cardinality(Lookups("validateFilters"))
              = IF DOMAIN FiltersOf(req) # {} THEN 1 ELSE 0
        /\ Cardinality(Lookups("refColumns")) <= 1
        /\ (Served /\ WantsDisplay(resp.fkDisplayMode) /\ db.fks # <<>>)
              => Cardinality(Lookups("refColumns")) = 1

C14_Witness ==
    /\ Served
    /\ Cardinality(DOMAIN FiltersOf(req)) = 2
    /\ Len(db.fks) = 2
    /\ Cardinality({ fk.refTable : fk \in SeqRange(db.fks) }) = 2
    /\ WantsDisplay(resp.fkDisplayMode)
    /\ Cardinality(Lookups("validateFilters")) = 1
    /\ Cardinality(Lookups("refColumns")) = 1

\* The last request ended in its route's catch block
ThrownOut ==
    log # <<>> /\ log[Len(log)].failed /\ ~log[Len(log)].caught

\* The error that catch block caught
Thrown == log[Len(log)].err

\* The kind of an outcome: its status and its timeout flag
KindOf(response) == <<response.status, response.timeout>>

\* C15: when a table-data request fails, a failure classified as a timeout
\* is answered 408 with the timeout flag and the message that advises on
\* foreign-key displays and page size; every other failure is answered 500
\* without the flag and without that message.
C15_TimeoutDistinguished ==
    (resp.route = "data" /\ ThrownOut) =>
        IF Thrown.timeout
        THEN /\ resp.status = 408
             /\ resp.timeout
             /\ resp.error = "Query execution timeout"
        ELSE /\ resp.status = 500
             /\ ~resp.timeout
             /\ resp.error # "Query execution timeout"

C15_Witness ==
    /\ resp.route = "data"
    /\ ThrownOut
    /\ log[Len(log)].kind = "data"
    /\ Thrown.timeout
    /\ resp.status = 408

\* C16: a request that fails with a login failure is answered with an
\* outcome of another kind than a generic execution failure is.
C16_AuthFailureKind ==
    (ThrownOut /\ Thrown.auth) => KindOf(resp) # KindOf(ErrorResponse(SqlError))

\* C17: a request that fails with an error whose message tells a login
\* failure leaves the pool null, and on a null pool every request other than
\* that one has been answered 'Not connected to database'.
C17_DisconnectOnLoginFailure ==
    /\ resp.error = MessageOf(LoginError) => pool = "null"
    /\ (pool = "null" /\ resp.error # MessageOf(LoginError))
          => resp.error = "Not connected to database"

C17_Witness ==
    /\ pool = "null"
    /\ resp.route = "data"
    /\ resp.error = "Not connected to database"

\* C18: a table-data request that is served when it is the only request on
\* the connected pool is served whatever happened to the requests before it.
C18_FailureScoped ==
    [][(/\ resp'.route = "data"
        /\ \E o \in Outcomes(db, fault, "connected", req') : o.resp.status = 200)
          => resp'.status = 200]_vars

\* C19: a table-data request that finds no connected pool is answered 'Not
\* connected to database' with status 400, hands no query to executeQuery
\* and leaves the pool as it is.
C19_NotConnected ==
    [][(pool # "connected" /\ resp'.route = "data")
          => (resp' = NotConnected /\ log' = <<>> /\ pool' = pool)]_vars

C19_Witness ==
    /\ resp = NotConnected
    /\ log = <<>>
    /\ pool = "null"
    /\ req # NoRequest

\* The foreign keys of the table that the resolver binds to a display column
BoundKeys ==
    { k \in 1..Len(db.fks) : ResolvedDisplay(db, db.fks, db.fks[k]) # "" }

\* C20: in key-only mode the data query has no join, no foreign-key lookup
\* is made and the rows have the base columns only; in key-display mode the
\* data query has exactly one LEFT JOIN for every foreign key with a display
\* binding and none for the others, and the rows have the base columns and
\* one <fkColumn>_display field for each of those foreign keys.
C20_ModePlans ==
    \A i \in DataCalls :
        LET plan == log[i].plan
        IN  /\ FkDisplayModeOf(req) = "key-only" =>
                  /\ plan.joins = <<>>
                  /\ Lookups("foreignKeys") = {}
                  /\ Lookups("refColumns") = {}
                  /\ Served => \A r \in 1..Len(resp.data) :
                                  DOMAIN resp.data[r] = SeqRange(db.cols)
            /\ FkDisplayModeOf(req) = "key-display" =>
                  /\ Len(plan.joins) = Cardinality(BoundKeys)
                  /\ \A k \in BoundKeys :
                        Cardinality({ j \in 1..Len(plan.joins) :
                            /\ plan.joins[j].fkColumn = db.fks[k].fkColumn
                            /\ plan.joins[j].refTable = db.fks[k].refTable
                            /\ plan.joins[j].refColumn = db.fks[k].refColumn }) = 1
                  /\ Served => \A r \in 1..Len(resp.data) :
                                  DOMAIN resp.data[r]
                                    = SeqRange(db.cols)
                                        \cup { DisplayField(db.fks[k].fkColumn) :
                                                 k \in BoundKeys }

C20_Witness ==
    /\ Served
    /\ resp.fkDisplayMode = "key-display"
    /\ Len(db.fks) = 2
    /\ Cardinality(BoundKeys) = 1
    /\ Len(ServedPlan.joins) = 1
    /\ resp.data # <<>>
    /\ DOMAIN resp.data[1] = {"id", "managerId", "deptId", "managerId_display"}

\* The plans of the last request's data query: the one executed and, when the
\* request was served, the generated query returned with the page
DataPlans ==
    { log[i].plan : i \in DataCalls } \cup (IF Served THEN {resp.query} ELSE {})

\* The request q in another display mode
InMode(q, mode) == [q EXCEPT !.fkDisplayMode = mode]

\* The data query the route builds for request q
DataPlanOf(q) == LET calls == Calls(db, fault, q) IN calls[Len(calls)].plan

\* C21: in display-only mode the select list of the data query and of the
\* generated query denotes no foreign-key column that has a display binding,
\* and the joins are those of key-display mode.
C21_DisplayOnlySelect ==
    FkDisplayModeOf(req) = "display-only" =>
        \A plan \in DataPlans :
            /\ plan.joins = DataPlanOf(InMode(req, "key-display")).joins
            /\ \A j \in 1..Len(plan.joins) :
                  plan.joins[j].fkColumn
                      \notin SelectedColumns(db, plan.select, plan.rn)

\* The foreign keys of the table whose referenced table has no column the
\* heuristic can display
Unresolvable ==
    { k \in 1..Len(db.fks) : ExpectedDisplay(ReferencedColumns(db.fks[k])) = "" }

\* C22: for a foreign key whose referenced table has no column to display,
\* in every mode the data query has no join and no display item, and in
\* display-only mode every returned row keeps the key column with the value
\* the base row has.
C22_UnboundKeyOnly ==
    \A k \in Unresolvable :
        LET fk == db.fks[k].fkColumn
        IN  /\ \A plan \in DataPlans :
                  /\ \A j \in 1..Len(plan.joins) : plan.joins[j].fkColumn # fk
                  /\ \A i \in 1..Len(plan.select) :
                        plan.select[i].as # DisplayField(fk)
            /\ (Served /\ resp.fkDisplayMode = "display-only") =>
                  \A r \in 1..Len(resp.data) :
                      /\ fk \in DOMAIN resp.data[r]
                      /\ \E b \in SeqRange(db.rows) :
                            /\ b["id"] = resp.data[r]["id"]
                            /\ b[fk] = resp.data[r][fk]

C22_Witness ==
    /\ Served
    /\ resp.fkDisplayMode = "display-only"
    /\ Len(db.fks) = 2
    /\ Unresolvable = {1}
    /\ Len(ServedPlan.joins) = 1
    /\ Len(resp.data) >= 2
    /\ resp.data[1]["deptId"] = db.rows[resp.data[1]["id"]]["deptId"]
    /\ resp.data[1]["managerId"] > 10

\* C23: the display column of every join the resolver produces is a column
\* of the referenced table whose declared type is one of the string types.
C23_BindingIsString ==
    \A plan \in DataPlans :
        \A j \in 1..Len(plan.joins) :
            \E t \in JoinedTable(db, plan.joins[j]) :
                \E c \in SeqRange(t.cols) :
                    /\ c.name = plan.joins[j].displayColumn
                    /\ Lower(c.type) \in StringTypes

SortLookupFailed ==
    \E j \in 1..Len(log) : log[j].kind = "validateSort" /\ log[j].failed

\* The effective sort column of the request: the requested column when the
\* catalog lookup finds it, else the first column of the table when the
\* first-column lookup returns one, else none ("")
EffectiveSortColumn ==
    LET cols == TableView(db, req).cols
    IN  IF /\ req.sortColumn # ""
           /\ ~SortLookupFailed
           /\ Resolve(db.ci, req.sortColumn, cols) # {}
        THEN req.sortColumn
        ELSE IF StructureLookupFailed \/ cols = <<>> THEN "" ELSE cols[1]

\* C24: the data query is paginated by ROW_NUMBER exactly when the request
\* has no effective sort column, and by OFFSET/FETCH ordered by the
\* effective sort column otherwise; no returned row has a field rn, in any
\* display mode.
C24_PaginationForm ==
    /\ \A plan \in DataPlans :
          /\ plan.rn <=> EffectiveSortColumn = ""
          /\ ~plan.rn => plan.orderBy = EffectiveSortColumn
    /\ Served => \A r \in 1..Len(resp.data) : "rn" \notin DOMAIN resp.data[r]

C24_Witness ==
    /\ Served
    /\ ServedPlan.rn
    /\ StructureLookupFailed
    /\ resp.fkDisplayMode = "key-display"
    /\ ServedPlan.joins # <<>>
    /\ Len(resp.data) >= 2
    /\ "rn" \notin DOMAIN resp.data[1]

\* C25: the generated query returned with a page has the select list, FROM,
\* joins, filter predicates, ORDER BY, offset and page size of the data query
\* that was executed, and run on its own, with nothing bound to it, it
\* compiles and returns the rows the executed query returns.
C25_GeneratedQueryRuns ==
    Served =>
        LET generated == resp.query
            plan == ServedPlan
        IN  /\ \A field \in (DOMAIN plan) \ {"params"} :
                  generated[field] = plan[field]
            /\ DataCompiles(db, generated)
            /\ DataResults(db, generated) = DataResults(db, plan)

\* The relations a data query's WHERE clause and ORDER BY are compiled
\* against: the base table alone in the numbered subquery, the base table
\* and every joined table otherwise
ScopeJoins(plan) == IF plan.rn THEN <<>> ELSE plan.joins

\* C28: in every data query each column named in the WHERE clause denotes
\* exactly one column in scope, a column of the base table, whatever tables
\* are joined; and a request that no failure is injected into and that is
\* served in key-only mode is served in the display mode it asks for.
C28_UnambiguousColumns ==
    (resp.route = "data" /\ log # <<>> /\ TableExists(db, req)) =>
        /\ \A i \in DataCalls :
              LET plan == log[i].plan
              IN  \A k \in 1..Len(plan.where) :
                      /\ Resolve(db.ci, plan.where[k].col, db.cols) # {}
                      /\ InScope(db, ScopeJoins(plan), plan.where[k].col) = 1
        /\ (/\ fault = NoFault
            /\ \E o \in Outcomes(db, fault, "connected", InMode(req, "key-only")) :
                  o.resp.status = 200)
              => Served

\* The predicates of a plan's WHERE clause on the column that key k denotes
PredicatesOn(plan, k) ==
    { w \in 1..Len(plan.where) :
        Resolve(db.ci, plan.where[w].col, db.cols) = Resolve(db.ci, k, db.cols) }

\* C29: when the lookup that validates the filter columns succeeds, every
\* filter with a non-empty pattern whose key the catalog finds on the table,
\* under the database's collation, has a predicate in the WHERE clause of the
\* count query and of the data query, bound to '%' + pattern + '%'.
C29_ValidatedFilterKept ==
    (TableExists(db, req) /\ ~FilterLookupFailed) =>
        \A i \in BuiltCalls :
            \A k \in DOMAIN FiltersOf(req) :
                Resolve(db.ci, k, db.cols) # {} =>
                    \E w \in PredicatesOn(log[i].plan, k) :
                        /\ Declared(log[i].plan.params, log[i].plan.where[w].param)
                        /\ ParamValue(log[i].plan.params, log[i].plan.where[w].param)
                              = <<"%">> \o FiltersOf(req)[k] \o <<"%">>

\* C27: while a connect() has returned and no disconnect() has started
\* since, getConnection() is the pool that connect() installed and it is
\* connected, whatever the other connect() and disconnect() calls in flight
\* do when what they await settles.
C27_InstalledPoolStays ==
    installed # NoPool =>
        /\ current = installed
        /\ GetConnection(pools, current) = "connected"

\* The grid shows a served page and the client has generated its text
Generated == Served /\ text # <<>>

\* The pagination clauses of a text: its OFFSET keywords and the `>` tests of
\* its row-number windows
OffsetClauses(x) == { i \in 1..Len(x) : x[i] = Kw("OFFSET") }

RnWindows(x) == { i \in 1..Len(x) : x[i] = Kw(">") }

HasJoin(x) == \E i \in 1..Len(x) : x[i] = Kw("LEFT JOIN")

\* The text from its first FROM on, line breaks aside, with every number
\* blanked: the FROM, JOIN, WHERE and ORDER BY text around the page position
Clauses(x) ==
    LET froms == { i \in 1..Len(x) : x[i] = Kw("FROM") }
        start == CHOOSE i \in froms : \A j \in froms : i <= j
        blanked == [i \in 1..(Len(x) - start + 1) |->
                      IF x[start + i - 1].kind = "num" THEN Tok("num", <<>>, 0)
                      ELSE x[start + i - 1]]
    IN  SeqFilter(blanked, { tok \in SeqRange(blanked) : tok.kind # "nl" })

\* C26: the text generated from the grid has exactly one pagination clause,
\* that clause holds the offset (page - 1) * pageSize and the size pageSize
\* of the grid, whichever form the served text has, and apart from JOINs
\* added to a text without any, the text from FROM on is the served one.
C26_PaginationReplaced ==
    Generated =>
        \A base \in {RenderQuery(resp.query)} :
            LET offset == (grid.page - 1) * grid.pageSize
            IN  /\ Cardinality(OffsetClauses(text)) + Cardinality(RnWindows(text)) = 1
                /\ \A i \in OffsetClauses(text) :
                      /\ text[i + 1] = Tok("num", <<>>, offset)
                      /\ \E j \in (i + 2)..(Len(text) - 1) :
                            /\ text[j] = Kw("FETCH NEXT")
                            /\ text[j + 1] = Tok("num", <<>>, grid.pageSize)
                /\ \A i \in RnWindows(text) :
                      /\ text[i + 1] = Tok("num", <<>>, offset)
                      /\ \E j \in (i + 2)..(Len(text) - 1) :
                            /\ text[j] = Kw("<=")
                            /\ text[j + 1] = Tok("num", <<>>, offset + grid.pageSize)
                /\ (HasJoin(text) <=> HasJoin(base)) => Clauses(text) = Clauses(base)

\* The columns the grid shows
VisibleColumns == SeqRange(ColumnIds(db, resp.data)) \ grid.hidden

\* The select items of text x that stand for column c: `[t].*`, `*`,
\* `[t].[c]`, `[c]` and `... as [c]`
ItemsFor(x, c) ==
    LET froms == { i \in 1..Len(x) : x[i] = Kw("FROM") }
        end == CHOOSE i \in froms : \A j \in froms : i <= j
    IN  { i \in 2..(end - 1) :
            \/ x[i].kind = "star"
            \/ /\ x[i] = Tok("name", <<c>>, 0)
               /\ \/ x[i - 1] \in {Kw("as"), Kw(","), Kw("SELECT")}
                  \/ x[i - 1].kind = "dot" /\ x[i - 2] = Tok("name", <<"t">>, 0) }

\* C30: in every display mode the select list of the generated text has
\* exactly one item for every visible column of the grid, and the item of a
\* column without a display binding is the column itself.
C30_VisibleColumnsSelected ==
    Generated =>
        \A c \in VisibleColumns :
            /\ Cardinality(ItemsFor(text, c)) = 1
            /\ c \notin DOMAIN resp.foreignKeyDisplays =>
                  \A i \in ItemsFor(text, c) : text[i - 1] # Kw("as")

====
